---- MODULE Spec2Model ----
(***************************************************************************)
(* Model of upb/util/def_to_proto.c: the conversion of resolved schema     *)
(* definitions (upb_*Def) into descriptor protos allocated in an arena.    *)
(*                                                                         *)
(* Every converter (fielddef_toproto, msgdef_toproto, ...) is an operator  *)
(* that yields, in source order, the sequence of primitive statements the  *)
(* function executes.  The state machine executes that sequence one        *)
(* statement at a time against an arena whose allocator calls may fail.    *)
(* C arrays are 0-based; the sequences of the model are 1-based, so slot i *)
(* of the code is element i + 1 here.                                      *)
(***************************************************************************)
EXTENDS Integers, Sequences, FiniteSets, TLC

VARIABLES
  status,      \* "idle", "running", "node" (returned proto), "null" (returned NULL), "crash"
  kind,        \* which public entry point was called
  src,         \* the source definition handed to the entry point
  rest,        \* statements of the conversion still to execute
  out,         \* output nodes: path -> (attribute or repeated field -> value)
  nullarr,     \* <<path, category>> whose resize returned NULL and was not checked
  linked,      \* paths of the nodes stored into a slot of their parent
  returned,    \* paths of the nodes whose converter has executed `return proto`
  allocs,      \* number of allocator calls made so far
  failAt,      \* the allocator call that fails (0: none)
  sticky,      \* TRUE: every call from failAt on fails; FALSE: only call failAt fails
  failed,      \* some allocator call of this conversion has failed
  overrun      \* a write went past the end of an allocated buffer

vars == <<status, kind, src, rest, out, nullarr, linked, returned, allocs,
          failAt, sticky, failed, overrun>>

(***************************************************************************)
(* Bounds of the model.                                                    *)
(***************************************************************************)
MaxKids == 2
MaxDepth == 1
MaxValLen == 2
MaxFailAt == 16

(***************************************************************************)
(* Generic helpers.                                                        *)
(***************************************************************************)
RECURSIVE Flat(_)
Flat(ss) == IF ss = <<>> THEN <<>> ELSE Head(ss) \o Flat(Tail(ss))

RECURSIVE SeqsUpTo(_, _)
SeqsUpTo(S, n) ==
  IF n = 0 THEN {<<>>}
  ELSE LET shorter == SeqsUpTo(S, n - 1)
       IN  shorter \cup {Append(s, b) : s \in {t \in shorter : Len(t) = n - 1}, b \in S}

Min(a, b) == IF a < b THEN a ELSE b

EmptyNode == [a \in {} |-> 0]

Child(p, cat, i) == Append(p, [c |-> cat, i |-> i])

(***************************************************************************)
(* Text.  A string is a sequence of byte values 0..255.                    *)
(***************************************************************************)
S_inf == <<105, 110, 102>>
S_ninf == <<45, 105, 110, 102>>
S_nan == <<110, 97, 110>>
S_true == <<116, 114, 117, 101>>
S_false == <<102, 97, 108, 115, 101>>
S_proto3 == <<112, 114, 111, 116, 111, 51>>

\* A value as the C type char holds it: -128..127 where char is signed.
AsChar(b, sgn) == IF sgn /\ b >= 128 THEN b - 256 ELSE b

\* An integer of up to 64 bits: its sign and its magnitude in limbs of nine
\* decimal digits (base 1000000000), most significant limb first.
Wide(neg, limbs) == [neg |-> neg, limbs |-> limbs]

\* The integer n of a single limb.
W(n) == Wide(n < 0, <<IF n < 0 THEN 0 - n ELSE n>>)

\* The value of a single-limb integer.
IntOf(v) == IF v.neg THEN 0 - v.limbs[1] ELSE v.limbs[1]

RECURSIVE DecDigits(_)
DecDigits(n) == IF n < 10 THEN <<48 + n>> ELSE Append(DecDigits(n \div 10), 48 + (n % 10))

\* The nine decimal digits of a limb that is not the leading one.
Pad9(n) == [i \in 1..9 |-> 48 + ((n \div (10 ^ (9 - i))) % 10)]

\* What the %d / %u family of conversions prints.
Dec(v) ==
  (IF v.neg THEN <<45>> ELSE <<>>)
  \o DecDigits(v.limbs[1])
  \o Flat([i \in 1..(Len(v.limbs) - 1) |-> Pad9(v.limbs[i + 1])])

\* What %.9g / %.17g print for an integral value of fewer digits than the
\* precision: its plain decimal form.
FmtG(n, prec) == Dec(W(n))

(***************************************************************************)
(* Value encoders.  Each yields the allocation it asks of the arena        *)
(* (alloc bytes), the bytes it writes into the buffer, and the size of     *)
(* the string view it returns over that buffer.                            *)
(***************************************************************************)
strviewdup2(str) ==
  [fn |-> "strviewdup2", alloc |-> Len(str), written |-> str, size |-> Len(str),
   assert_ok |-> TRUE]

strviewdup(s) == strviewdup2(s)

\* qual_dup with the dot written after the name instead of before it.
qual_dup_dot_last(s) ==
  LET n == Len(s)
  IN  [fn |-> "qual_dup", alloc |-> n + 1, written |-> s \o <<46>>, size |-> n + 1,
       assert_ok |-> TRUE]

qual_dup(s) ==
  LET n == Len(s)
  IN  [fn |-> "qual_dup", alloc |-> n + 1, written |-> <<46>> \o s, size |-> n + 1,
       assert_ok |-> TRUE]

printf_max == 32

\* printf_dup with a buffer of half the size.
printf_dup_half_buffer(text) ==
  LET n == Len(text)
      max == printf_max \div 2
  IN  [fn |-> "printf_dup", alloc |-> max,
       written |-> Append(SubSeq(text, 1, Min(n, max - 1)), 0),
       size |-> n, assert_ok |-> n < max]

printf_dup(text) ==
  LET n == Len(text)
  IN  [fn |-> "printf_dup", alloc |-> printf_max,
       written |-> Append(SubSeq(text, 1, Min(n, printf_max - 1)), 0),
       size |-> n, assert_ok |-> n < printf_max]

upb_isprint(ch) == ch >= 32 /\ ch <= 127

\* special_escape with the carriage return mapped to the letter of the newline.
special_escape_cr_as_n(ch) ==
  CASE ch = 10 -> 110
    [] ch = 13 -> 110
    [] ch = 9 -> 116
    [] ch = 92 -> 92
    [] ch = 39 -> 39
    [] ch = 34 -> 34
    [] OTHER -> -1

special_escape(ch) ==
  CASE ch = 10 -> 110
    [] ch = 13 -> 114
    [] ch = 9 -> 116
    [] ch = 92 -> 92
    [] ch = 39 -> 39
    [] ch = 34 -> 34
    [] OTHER -> -1

\* The length pass with the printable test made before the special-escape test.
RECURSIVE default_bytes_n_print_first(_, _)
default_bytes_n_print_first(val, sgn) ==
  IF val = <<>> THEN 0
  ELSE LET ch == AsChar(Head(val), sgn)
       IN  (IF upb_isprint(ch) THEN 1
            ELSE IF special_escape(ch) >= 0 THEN 2
            ELSE 4) + default_bytes_n_print_first(Tail(val), sgn)

\* First pass of default_bytes: the length n of the escaped text.
RECURSIVE default_bytes_n(_, _)
default_bytes_n(val, sgn) ==
  IF val = <<>> THEN 0
  ELSE LET ch == AsChar(Head(val), sgn)
       IN  (IF special_escape(ch) >= 0 THEN 2
            ELSE IF upb_isprint(ch) THEN 1
            ELSE 4) + default_bytes_n(Tail(val), sgn)

\* Second pass of default_bytes: the bytes stored through dst.
RECURSIVE default_bytes_dst(_, _)
default_bytes_dst(val, sgn) ==
  IF val = <<>> THEN <<>>
  ELSE LET ch == Head(val)
       IN  (IF special_escape(AsChar(ch, sgn)) >= 0
              THEN <<92, special_escape(AsChar(ch, sgn))>>
            ELSE IF upb_isprint(AsChar(ch, sgn)) THEN <<ch>>
            ELSE <<92, 48 + (ch \div 64), 48 + ((ch \div 8) % 8), 48 + (ch % 8)>>)
           \o default_bytes_dst(Tail(val), sgn)

default_bytes(val, sgn) ==
  [fn |-> "default_bytes", alloc |-> default_bytes_n(val, sgn),
   written |-> default_bytes_dst(val, sgn), size |-> default_bytes_n(val, sgn),
   assert_ok |-> TRUE]

\* The enum value of e whose number is num (the first one, if aliased).
upb_EnumDef_FindValueByNumber(e, num) ==
  e.value[CHOOSE i \in 1..Len(e.value) :
            /\ e.value[i].number = num
            /\ \A j \in 1..(i - 1) : e.value[j].number # num]

\* default_string with the special-value check applied to a field of any kind.
default_string_unguarded(f, sgn) ==
  LET d == f.default
      type == f.ctype
      val == IF type = "Float" THEN d.float_val ELSE d.double_val
  IN  IF val.cls = "inf" THEN strviewdup(S_inf)
      ELSE IF val.cls = "ninf" THEN strviewdup(S_ninf)
      ELSE IF val.cls = "nan" THEN strviewdup(S_nan)
      ELSE CASE type = "Bool" -> strviewdup(IF d.bool_val THEN S_true ELSE S_false)
             [] type = "Enum" ->
                  strviewdup(upb_EnumDef_FindValueByNumber(f.enum_sub, IntOf(d.int32_val)).name)
             [] type = "Int64" -> printf_dup(Dec(d.int64_val))
             [] type = "UInt64" -> printf_dup(Dec(d.uint64_val))
             [] type = "Int32" -> printf_dup(Dec(d.int32_val))
             [] type = "UInt32" -> printf_dup(Dec(d.uint32_val))
             [] type = "Float" -> printf_dup(FmtG(d.float_val.n, 9))
             [] type = "Double" -> printf_dup(FmtG(d.double_val.n, 17))
             [] type = "String" -> strviewdup2(d.str_val)
             [] type = "Bytes" -> default_bytes(d.str_val, sgn)

default_string(f, sgn) ==
  LET d == f.default
      type == f.ctype
      val == IF type = "Float" THEN d.float_val ELSE d.double_val
  IN  IF (type = "Float" \/ type = "Double") /\ val.cls = "inf" THEN strviewdup(S_inf)
      ELSE IF (type = "Float" \/ type = "Double") /\ val.cls = "ninf" THEN strviewdup(S_ninf)
      ELSE IF (type = "Float" \/ type = "Double") /\ val.cls = "nan" THEN strviewdup(S_nan)
      ELSE CASE type = "Bool" -> strviewdup(IF d.bool_val THEN S_true ELSE S_false)
             [] type = "Enum" ->
                  strviewdup(upb_EnumDef_FindValueByNumber(f.enum_sub, IntOf(d.int32_val)).name)
             [] type = "Int64" -> printf_dup(Dec(d.int64_val))
             [] type = "UInt64" -> printf_dup(Dec(d.uint64_val))
             [] type = "Int32" -> printf_dup(Dec(d.int32_val))
             [] type = "UInt32" -> printf_dup(Dec(d.uint32_val))
             [] type = "Float" -> printf_dup(FmtG(d.float_val.n, 9))
             [] type = "Double" -> printf_dup(FmtG(d.double_val.n, 17))
             [] type = "String" -> strviewdup2(d.str_val)
             [] type = "Bytes" -> default_bytes(d.str_val, sgn)

(***************************************************************************)
(* Options.  An options message is a sequence of entries [num, val]: the   *)
(* field number and the payload bytes of each field it holds, known or     *)
(* unknown.  Serialize lays the entries out as number, length, payload;    *)
(* Parse reads that layout back.                                           *)
(***************************************************************************)
RECURSIVE Serialize(_)
Serialize(opts) ==
  IF opts = <<>> THEN <<>>
  ELSE <<Head(opts).num, Len(Head(opts).val)>> \o Head(opts).val \o Serialize(Tail(opts))

RECURSIVE Parse(_)
Parse(pb) ==
  IF Len(pb) < 2 THEN <<>>
  ELSE LET n == pb[2]
       IN  <<[num |-> pb[1], val |-> SubSeq(pb, 3, 2 + n)]>>
           \o Parse(SubSeq(pb, 3 + n, Len(pb)))

(***************************************************************************)
(* Statements.                                                             *)
(***************************************************************************)
\* proto = X_new(ctx->arena); CHK_OOM(proto);
OpNew(p, t) == [op |-> "new", node |-> p, type |-> t]
\* X_set_a(proto, <allocating encoder>)
OpSetStr(p, a, sv) == [op |-> "setstr", node |-> p, attr |-> a, sv |-> sv]
\* X_set_a(proto, v)
OpSet(p, a, v) == [op |-> "set", node |-> p, attr |-> a, val |-> v]
\* arr = X_resize_cat(proto, n, ctx->arena); and CHK_OOM(arr) where chk
OpResize(p, cat, n, chk) == [op |-> "resize", node |-> p, cat |-> cat, n |-> n, chk |-> chk]
\* arr[i] = <node built by the converter call just completed>
OpStoreNode(p, cat, i, q) == [op |-> "storenode", node |-> p, cat |-> cat, i |-> i, ref |-> q]
\* arr[i] = <allocating encoder>
OpStoreDup(p, cat, i, sv) == [op |-> "storedup", node |-> p, cat |-> cat, i |-> i, sv |-> sv]
\* arr[i] = <string view of the source model>
OpStoreView(p, cat, i, str) == [op |-> "storeview", node |-> p, cat |-> cat, i |-> i, str |-> str]
\* if (n) memcpy(arr, nums, n * sizeof(int32_t))
OpMemcpy(p, cat, nums) == [op |-> "memcpy", node |-> p, cat |-> cat, nums |-> nums]
\* pb = X_serialize(src, ctx->arena, &size); CHK_OOM(pb);
OpSerialize(p, opts) == [op |-> "serialize", node |-> p, size |-> Len(Serialize(opts))]
\* dst = X_parse(pb, size, ctx->arena); CHK_OOM(dst); X_set_options(proto, dst);
OpParse(p, pb) == [op |-> "parse", node |-> p, pb |-> pb]
\* return proto;
OpReturn(p) == [op |-> "return", node |-> p]

\* SET_OPTIONS with the parser handed a size of zero.
SET_OPTIONS_zero_size(p, opts) == <<OpSerialize(p, opts), OpParse(p, <<>>)>>

SET_OPTIONS(p, opts) == <<OpSerialize(p, opts), OpParse(p, Serialize(opts))>>

(***************************************************************************)
(* Entity converters: the statements each executes for the source entity   *)
(* it is given, building the output node at path p.                        *)
(***************************************************************************)
upb_FieldDef_IsSubMessage(f) == f.ctype = "Message"

resrange_toproto(r, p) ==
  <<OpNew(p, "DescriptorProto_ReservedRange"),
    OpSet(p, "start", r.start),
    OpSet(p, "end", r.end),
    OpReturn(p)>>

enumresrange_toproto(r, p) ==
  <<OpNew(p, "EnumDescriptorProto_EnumReservedRange"),
    OpSet(p, "start", r.start),
    OpSet(p, "end", r.end),
    OpReturn(p)>>

\* fielddef_toproto with the oneof index and the default emitted unconditionally.
fielddef_toproto_unconditional(f, p, sgn) ==
  <<OpNew(p, "FieldDescriptorProto"),
    OpSetStr(p, "name", strviewdup(f.name)),
    OpSet(p, "number", f.number),
    OpSet(p, "label", f.label),
    OpSet(p, "type", f.type)>>
  \o (IF f.has_json_name THEN <<OpSetStr(p, "json_name", strviewdup(f.json_name))>> ELSE <<>>)
  \o (IF upb_FieldDef_IsSubMessage(f)
        THEN <<OpSetStr(p, "type_name", qual_dup(f.message_sub_def.full_name))>>
      ELSE IF f.ctype = "Enum"
        THEN <<OpSetStr(p, "type_name", qual_dup(f.enum_sub.full_name))>>
      ELSE <<>>)
  \o (IF f.is_extension
        THEN <<OpSetStr(p, "extendee", qual_dup(f.containing_type.full_name))>>
      ELSE <<>>)
  \o (IF f.has_default \/ f.ctype = "Int32"
        THEN <<OpSetStr(p, "default_value", default_string(f, sgn))>>
      ELSE <<>>)
  \o <<OpSet(p, "oneof_index", f.containing_oneof.index)>>
  \o (IF f.proto3_optional THEN <<OpSet(p, "proto3_optional", TRUE)>> ELSE <<>>)
  \o (IF f.has_options THEN SET_OPTIONS(p, f.options) ELSE <<>>)
  \o <<OpReturn(p)>>

fielddef_toproto(f, p, sgn) ==
  <<OpNew(p, "FieldDescriptorProto"),
    OpSetStr(p, "name", strviewdup(f.name)),
    OpSet(p, "number", f.number),
    OpSet(p, "label", f.label),
    OpSet(p, "type", f.type)>>
  \o (IF f.has_json_name THEN <<OpSetStr(p, "json_name", strviewdup(f.json_name))>> ELSE <<>>)
  \o (IF upb_FieldDef_IsSubMessage(f)
        THEN <<OpSetStr(p, "type_name", qual_dup(f.message_sub_def.full_name))>>
      ELSE IF f.ctype = "Enum"
        THEN <<OpSetStr(p, "type_name", qual_dup(f.enum_sub.full_name))>>
      ELSE <<>>)
  \o (IF f.is_extension
        THEN <<OpSetStr(p, "extendee", qual_dup(f.containing_type.full_name))>>
      ELSE <<>>)
  \o (IF f.has_default
        THEN <<OpSetStr(p, "default_value", default_string(f, sgn))>>
      ELSE <<>>)
  \o (IF f.containing_oneof.present
        THEN <<OpSet(p, "oneof_index", f.containing_oneof.index)>>
      ELSE <<>>)
  \o (IF f.proto3_optional THEN <<OpSet(p, "proto3_optional", TRUE)>> ELSE <<>>)
  \o (IF f.has_options THEN SET_OPTIONS(p, f.options) ELSE <<>>)
  \o <<OpReturn(p)>>

oneofdef_toproto(o, p) ==
  <<OpNew(p, "OneofDescriptorProto"),
    OpSetStr(p, "name", strviewdup(o.name))>>
  \o (IF o.has_options THEN SET_OPTIONS(p, o.options) ELSE <<>>)
  \o <<OpReturn(p)>>

enumvaldef_toproto(e, p) ==
  <<OpNew(p, "EnumValueDescriptorProto"),
    OpSetStr(p, "name", strviewdup(e.name)),
    OpSet(p, "number", e.number)>>
  \o (IF e.has_options THEN SET_OPTIONS(p, e.options) ELSE <<>>)
  \o <<OpReturn(p)>>

enumdef_toproto(e, p) ==
  <<OpNew(p, "EnumDescriptorProto"),
    OpSetStr(p, "name", strviewdup(e.name))>>
  \o <<OpResize(p, "value", Len(e.value), TRUE)>>
  \o Flat([i \in 1..Len(e.value) |->
             enumvaldef_toproto(e.value[i], Child(p, "value", i))
             \o <<OpStoreNode(p, "value", i, Child(p, "value", i))>>])
  \o <<OpResize(p, "reserved_range", Len(e.reserved_range), FALSE)>>
  \o Flat([i \in 1..Len(e.reserved_range) |->
             enumresrange_toproto(e.reserved_range[i], Child(p, "reserved_range", i))
             \o <<OpStoreNode(p, "reserved_range", i, Child(p, "reserved_range", i))>>])
  \o <<OpResize(p, "reserved_name", Len(e.reserved_name), FALSE)>>
  \o [i \in 1..Len(e.reserved_name) |->
        OpStoreView(p, "reserved_name", i, e.reserved_name[i])]
  \o (IF e.has_options THEN SET_OPTIONS(p, e.options) ELSE <<>>)
  \o <<OpReturn(p)>>

extrange_toproto(e, p) ==
  <<OpNew(p, "DescriptorProto_ExtensionRange"),
    OpSet(p, "start", e.start),
    OpSet(p, "end", e.end)>>
  \o (IF e.has_options THEN SET_OPTIONS(p, e.options) ELSE <<>>)
  \o <<OpReturn(p)>>

RECURSIVE msgdef_toproto(_, _, _)
msgdef_toproto(m, p, sgn) ==
  <<OpNew(p, "DescriptorProto"),
    OpSetStr(p, "name", strviewdup(m.name))>>
  \o <<OpResize(p, "field", Len(m.field), TRUE)>>
  \o Flat([i \in 1..Len(m.field) |->
             fielddef_toproto(m.field[i], Child(p, "field", i), sgn)
             \o <<OpStoreNode(p, "field", i, Child(p, "field", i))>>])
  \o <<OpResize(p, "oneof_decl", Len(m.oneof_decl), FALSE)>>
  \o Flat([i \in 1..Len(m.oneof_decl) |->
             oneofdef_toproto(m.oneof_decl[i], Child(p, "oneof_decl", i))
             \o <<OpStoreNode(p, "oneof_decl", i, Child(p, "oneof_decl", i))>>])
  \o <<OpResize(p, "nested_type", Len(m.nested_type), FALSE)>>
  \o Flat([i \in 1..Len(m.nested_type) |->
             msgdef_toproto(m.nested_type[i], Child(p, "nested_type", i), sgn)
             \o <<OpStoreNode(p, "nested_type", i, Child(p, "nested_type", i))>>])
  \o <<OpResize(p, "enum_type", Len(m.enum_type), FALSE)>>
  \o Flat([i \in 1..Len(m.enum_type) |->
             enumdef_toproto(m.enum_type[i], Child(p, "enum_type", i))
             \o <<OpStoreNode(p, "enum_type", i, Child(p, "enum_type", i))>>])
  \o <<OpResize(p, "extension", Len(m.extension), FALSE)>>
  \o Flat([i \in 1..Len(m.extension) |->
             fielddef_toproto(m.extension[i], Child(p, "extension", i), sgn)
             \o <<OpStoreNode(p, "extension", i, Child(p, "extension", i))>>])
  \o <<OpResize(p, "extension_range", Len(m.extension_range), FALSE)>>
  \o Flat([i \in 1..Len(m.extension_range) |->
             extrange_toproto(m.extension_range[i], Child(p, "extension_range", i))
             \o <<OpStoreNode(p, "extension_range", i, Child(p, "extension_range", i))>>])
  \o <<OpResize(p, "reserved_range", Len(m.reserved_range), FALSE)>>
  \o Flat([i \in 1..Len(m.reserved_range) |->
             resrange_toproto(m.reserved_range[i], Child(p, "reserved_range", i))
             \o <<OpStoreNode(p, "reserved_range", i, Child(p, "reserved_range", i))>>])
  \o <<OpResize(p, "reserved_name", Len(m.reserved_name), FALSE)>>
  \o [i \in 1..Len(m.reserved_name) |->
        OpStoreView(p, "reserved_name", i, m.reserved_name[i])]
  \o (IF m.has_options THEN SET_OPTIONS(p, m.options) ELSE <<>>)
  \o <<OpReturn(p)>>

\* methoddef_toproto with both streaming flags always emitted, true or false.
methoddef_toproto_explicit_flags(m, p) ==
  <<OpNew(p, "MethodDescriptorProto"),
    OpSetStr(p, "name", strviewdup(m.name)),
    OpSetStr(p, "input_type", qual_dup(m.input_type.full_name)),
    OpSetStr(p, "output_type", qual_dup(m.output_type.full_name))>>
  \o <<OpSet(p, "client_streaming", m.client_streaming)>>
  \o <<OpSet(p, "server_streaming", m.server_streaming)>>
  \o (IF m.has_options THEN SET_OPTIONS(p, m.options) ELSE <<>>)
  \o <<OpReturn(p)>>

methoddef_toproto(m, p) ==
  <<OpNew(p, "MethodDescriptorProto"),
    OpSetStr(p, "name", strviewdup(m.name)),
    OpSetStr(p, "input_type", qual_dup(m.input_type.full_name)),
    OpSetStr(p, "output_type", qual_dup(m.output_type.full_name))>>
  \o (IF m.client_streaming THEN <<OpSet(p, "client_streaming", TRUE)>> ELSE <<>>)
  \o (IF m.server_streaming THEN <<OpSet(p, "server_streaming", TRUE)>> ELSE <<>>)
  \o (IF m.has_options THEN SET_OPTIONS(p, m.options) ELSE <<>>)
  \o <<OpReturn(p)>>

\* servicedef_toproto with each method's node linked before it is filled in.
servicedef_toproto_link_first(s, p) ==
  <<OpNew(p, "ServiceDescriptorProto"),
    OpSetStr(p, "name", strviewdup(s.name))>>
  \o <<OpResize(p, "method", Len(s.method), FALSE)>>
  \o Flat([i \in 1..Len(s.method) |->
             <<OpNew(Child(p, "method", i), "MethodDescriptorProto"),
               OpStoreNode(p, "method", i, Child(p, "method", i))>>
             \o Tail(methoddef_toproto(s.method[i], Child(p, "method", i)))])
  \o (IF s.has_options THEN SET_OPTIONS(p, s.options) ELSE <<>>)
  \o <<OpReturn(p)>>

servicedef_toproto(s, p) ==
  <<OpNew(p, "ServiceDescriptorProto"),
    OpSetStr(p, "name", strviewdup(s.name))>>
  \o <<OpResize(p, "method", Len(s.method), FALSE)>>
  \o Flat([i \in 1..Len(s.method) |->
             methoddef_toproto(s.method[i], Child(p, "method", i))
             \o <<OpStoreNode(p, "method", i, Child(p, "method", i))>>])
  \o (IF s.has_options THEN SET_OPTIONS(p, s.options) ELSE <<>>)
  \o <<OpReturn(p)>>

\* filedef_toproto without the test of the length of the package.
filedef_toproto_package_if_present(f, p, sgn) ==
  <<OpNew(p, "FileDescriptorProto"),
    OpSetStr(p, "name", strviewdup(f.name))>>
  \o (IF f.has_package
        THEN <<OpSetStr(p, "package", strviewdup(f.package))>>
      ELSE <<>>)
  \o (IF f.syntax = "Editions" THEN <<OpSet(p, "edition", f.edition)>> ELSE <<>>)
  \o (IF f.syntax = "Proto3" THEN <<OpSetStr(p, "syntax", strviewdup(S_proto3))>> ELSE <<>>)
  \o <<OpResize(p, "dependency", Len(f.dependency), FALSE)>>
  \o [i \in 1..Len(f.dependency) |->
        OpStoreDup(p, "dependency", i, strviewdup(f.dependency[i].name))]
  \o <<OpResize(p, "public_dependency", Len(f.public_dependency), FALSE),
       OpMemcpy(p, "public_dependency", f.public_dependency)>>
  \o <<OpResize(p, "weak_dependency", Len(f.weak_dependency), FALSE),
       OpMemcpy(p, "weak_dependency", f.weak_dependency)>>
  \o <<OpResize(p, "message_type", Len(f.message_type), FALSE)>>
  \o Flat([i \in 1..Len(f.message_type) |->
             msgdef_toproto(f.message_type[i], Child(p, "message_type", i), sgn)
             \o <<OpStoreNode(p, "message_type", i, Child(p, "message_type", i))>>])
  \o <<OpResize(p, "enum_type", Len(f.enum_type), FALSE)>>
  \o Flat([i \in 1..Len(f.enum_type) |->
             enumdef_toproto(f.enum_type[i], Child(p, "enum_type", i))
             \o <<OpStoreNode(p, "enum_type", i, Child(p, "enum_type", i))>>])
  \o <<OpResize(p, "service", Len(f.service), FALSE)>>
  \o Flat([i \in 1..Len(f.service) |->
             servicedef_toproto(f.service[i], Child(p, "service", i))
             \o <<OpStoreNode(p, "service", i, Child(p, "service", i))>>])
  \o <<OpResize(p, "extension", Len(f.extension), FALSE)>>
  \o Flat([i \in 1..Len(f.extension) |->
             fielddef_toproto(f.extension[i], Child(p, "extension", i), sgn)
             \o <<OpStoreNode(p, "extension", i, Child(p, "extension", i))>>])
  \o (IF f.has_options THEN SET_OPTIONS(p, f.options) ELSE <<>>)
  \o <<OpReturn(p)>>

filedef_toproto(f, p, sgn) ==
  <<OpNew(p, "FileDescriptorProto"),
    OpSetStr(p, "name", strviewdup(f.name))>>
  \o (IF f.has_package /\ Len(f.package) # 0
        THEN <<OpSetStr(p, "package", strviewdup(f.package))>>
      ELSE <<>>)
  \o (IF f.syntax = "Editions" THEN <<OpSet(p, "edition", f.edition)>> ELSE <<>>)
  \o (IF f.syntax = "Proto3" THEN <<OpSetStr(p, "syntax", strviewdup(S_proto3))>> ELSE <<>>)
  \o <<OpResize(p, "dependency", Len(f.dependency), FALSE)>>
  \o [i \in 1..Len(f.dependency) |->
        OpStoreDup(p, "dependency", i, strviewdup(f.dependency[i].name))]
  \o <<OpResize(p, "public_dependency", Len(f.public_dependency), FALSE),
       OpMemcpy(p, "public_dependency", f.public_dependency)>>
  \o <<OpResize(p, "weak_dependency", Len(f.weak_dependency), FALSE),
       OpMemcpy(p, "weak_dependency", f.weak_dependency)>>
  \o <<OpResize(p, "message_type", Len(f.message_type), FALSE)>>
  \o Flat([i \in 1..Len(f.message_type) |->
             msgdef_toproto(f.message_type[i], Child(p, "message_type", i), sgn)
             \o <<OpStoreNode(p, "message_type", i, Child(p, "message_type", i))>>])
  \o <<OpResize(p, "enum_type", Len(f.enum_type), FALSE)>>
  \o Flat([i \in 1..Len(f.enum_type) |->
             enumdef_toproto(f.enum_type[i], Child(p, "enum_type", i))
             \o <<OpStoreNode(p, "enum_type", i, Child(p, "enum_type", i))>>])
  \o <<OpResize(p, "service", Len(f.service), FALSE)>>
  \o Flat([i \in 1..Len(f.service) |->
             servicedef_toproto(f.service[i], Child(p, "service", i))
             \o <<OpStoreNode(p, "service", i, Child(p, "service", i))>>])
  \o <<OpResize(p, "extension", Len(f.extension), FALSE)>>
  \o Flat([i \in 1..Len(f.extension) |->
             fielddef_toproto(f.extension[i], Child(p, "extension", i), sgn)
             \o <<OpStoreNode(p, "extension", i, Child(p, "extension", i))>>])
  \o (IF f.has_options THEN SET_OPTIONS(p, f.options) ELSE <<>>)
  \o <<OpReturn(p)>>

(***************************************************************************)
(* Source models handed to the entry points.  They are resolved: every     *)
(* cross reference is the referenced definition itself, a oneof knows its  *)
(* index in its message, an enum default is the number of one of the       *)
(* enum's values.                                                          *)
(***************************************************************************)
Opts == <<[num |-> 3, val |-> <<1>>], [num |-> 200, val |-> <<7, 8>>]>>

NoDefault ==
  [bool_val |-> FALSE, int32_val |-> W(0), int64_val |-> W(0), uint32_val |-> W(0),
   uint64_val |-> W(0), float_val |-> [cls |-> "fin", n |-> 0],
   double_val |-> [cls |-> "fin", n |-> 0], str_val |-> <<>>]

NoOneof == [present |-> FALSE, name |-> <<>>, index |-> 0]

OneofRef(i) == [present |-> TRUE, name |-> <<111, 48 + i>>, index |-> i - 1]

SubMsg == [full_name |-> <<112, 46, 77>>]

SubEnum ==
  [full_name |-> <<112, 46, 69>>,
   value |-> <<[name |-> <<65>>, number |-> 0], [name |-> <<66>>, number |-> 1]>>]

CTypes ==
  {"Bool", "Enum", "Int32", "Int64", "UInt32", "UInt64", "Float", "Double",
   "String", "Bytes", "Message"}

\* The descriptor type number (FieldDescriptorProto.Type) of a field of C type ct.
TypeOf(ct) ==
  CASE ct = "Double" -> 1 [] ct = "Float" -> 2 [] ct = "Int64" -> 3
    [] ct = "UInt64" -> 4 [] ct = "Int32" -> 5 [] ct = "Bool" -> 8
    [] ct = "String" -> 9 [] ct = "Message" -> 11 [] ct = "Bytes" -> 12
    [] ct = "UInt32" -> 13 [] ct = "Enum" -> 14

FloatVals == {[cls |-> c, n |-> 0] : c \in {"inf", "ninf", "nan"}}
               \cup {[cls |-> "fin", n |-> k] : k \in {0, -3}}

\* Bytes of every class default_bytes tells apart, and the edges of the classes.
ByteAlphabet == {0, 9, 10, 13, 31, 32, 34, 39, 65, 92, 126, 127, 128, 255}

ByteInputs == SeqsUpTo(ByteAlphabet, MaxValLen) \cup {<<b>> : b \in 0..255}

\* The ends of the ranges of the integer kinds.
INT32_MAX == Wide(FALSE, <<2, 147483647>>)
INT32_MIN == Wide(TRUE, <<2, 147483648>>)
UINT32_MAX == Wide(FALSE, <<4, 294967295>>)
INT64_MAX == Wide(FALSE, <<9, 223372036, 854775807>>)
INT64_MIN == Wide(TRUE, <<9, 223372036, 854775808>>)
UINT64_MAX == Wide(FALSE, <<18, 446744073, 709551615>>)

\* The default values a field of C type ct can carry.  The default is a
\* union: the members of a field of an integer kind whose bits are those of
\* an infinity or a NaN read as that special value through float_val or
\* double_val.
DefaultsOf(ct) ==
  CASE ct = "Bool" -> {[NoDefault EXCEPT !.bool_val = b] : b \in BOOLEAN}
    [] ct = "Enum" -> {[NoDefault EXCEPT !.int32_val = W(k)] : k \in {0, 1}}
    [] ct = "Int32" ->
         {[NoDefault EXCEPT !.int32_val = v] : v \in {W(0), W(5), W(-1), INT32_MAX, INT32_MIN}}
         \cup {[NoDefault EXCEPT !.int32_val = Wide(FALSE, <<2, 139095040>>),
                                 !.float_val = [cls |-> "inf", n |-> 0]]}
    [] ct = "Int64" ->
         {[NoDefault EXCEPT !.int64_val = v] : v \in {W(0), W(-7), INT64_MAX, INT64_MIN}}
         \cup {[NoDefault EXCEPT !.int64_val = Wide(FALSE, <<9, 218868437, 227405312>>),
                                 !.double_val = [cls |-> "inf", n |-> 0]],
               [NoDefault EXCEPT !.int64_val = Wide(FALSE, <<9, 221120237, 41090560>>),
                                 !.double_val = [cls |-> "nan", n |-> 0]]}
    [] ct = "UInt32" -> {[NoDefault EXCEPT !.uint32_val = v] : v \in {W(0), W(7), UINT32_MAX}}
    [] ct = "UInt64" ->
         {[NoDefault EXCEPT !.uint64_val = v] : v \in {W(0), UINT64_MAX}}
         \cup {[NoDefault EXCEPT !.uint64_val = Wide(FALSE, <<18, 442240474, 82181120>>),
                                 !.double_val = [cls |-> "ninf", n |-> 0]]}
    [] ct = "Float" -> {[NoDefault EXCEPT !.float_val = v] : v \in FloatVals}
    [] ct = "Double" -> {[NoDefault EXCEPT !.double_val = v] : v \in FloatVals}
    [] ct = "String" -> {[NoDefault EXCEPT !.str_val = v] : v \in {<<>>, <<104, 105>>, <<34>>}}
    [] ct = "Bytes" -> {[NoDefault EXCEPT !.str_val = v] : v \in ByteInputs}
    [] ct = "Message" -> {}

MkField(name, number, ct, hd, d, oo, ext, opt) ==
  [name |-> name, number |-> number, label |-> 1, type |-> TypeOf(ct), ctype |-> ct,
   has_json_name |-> opt, json_name |-> name,
   message_sub_def |-> SubMsg, enum_sub |-> SubEnum,
   is_extension |-> ext, containing_type |-> [full_name |-> <<112, 46, 88>>],
   has_default |-> hd, default |-> d,
   containing_oneof |-> oo, proto3_optional |-> oo.present /\ opt,
   has_options |-> opt, options |-> Opts]

FieldSamples ==
  {MkField(<<120>>, 1, ct, FALSE, NoDefault, oo, ext, opt) :
     ct \in CTypes, oo \in {NoOneof, OneofRef(1), OneofRef(2)},
     ext \in BOOLEAN, opt \in BOOLEAN}
  \cup UNION {{MkField(<<120>>, 1, ct, TRUE, d, oo, FALSE, FALSE) :
                 d \in DefaultsOf(ct), oo \in {NoOneof, OneofRef(2)}} :
              ct \in CTypes \ {"Bytes"}}
  \cup {MkField(<<120>>, 1, "Bytes", TRUE, d, NoOneof, FALSE, FALSE) :
          d \in DefaultsOf("Bytes")}

OneofSamples ==
  {[name |-> <<111, 48 + i>>, index |-> i - 1, has_options |-> o, options |-> Opts] :
     i \in 1..MaxKids, o \in BOOLEAN}

EnumValueSamples ==
  {[name |-> <<65 + k>>, number |-> k, has_options |-> o, options |-> Opts] :
     k \in 0..MaxKids, o \in BOOLEAN}

MethodSamples ==
  {[name |-> <<109>>, input_type |-> [full_name |-> <<112, 46, 73>>],
    output_type |-> [full_name |-> <<112, 46, 79>>],
    client_streaming |-> cs, server_streaming |-> ss,
    has_options |-> o, options |-> Opts] :
     cs \in BOOLEAN, ss \in BOOLEAN, o \in BOOLEAN}

Cats ==
  {"field", "oneof_decl", "nested_type", "enum_type", "extension", "extension_range",
   "reserved_range", "reserved_name", "value", "method", "dependency",
   "public_dependency", "weak_dependency", "message_type", "service"}

\* How many children of each category an entity has, and whether it has options.
Profiles ==
  {[n |-> [cat \in Cats |-> k], opt |-> o] : k \in 0..MaxKids, o \in BOOLEAN}
  \cup {[n |-> [cat \in Cats |-> IF cat = c THEN MaxKids ELSE 0], opt |-> FALSE] :
          c \in Cats}

Small(c) == [n |-> [cat \in Cats |-> Min(c.n[cat], 1)], opt |-> c.opt]

\* The i-th field of a message with nOneofs oneofs.
MemberField(i, nOneofs, ext) ==
  LET ct == IF i % 3 = 1 THEN "Int32" ELSE IF i % 3 = 2 THEN "Enum" ELSE "Message"
  IN  MkField(<<102, 48 + i>>, i, ct, ct = "Int32", [NoDefault EXCEPT !.int32_val = W(5)],
              IF nOneofs > 0 /\ ~ext THEN OneofRef(((i - 1) % nOneofs) + 1) ELSE NoOneof,
              ext, i = 2)

EnumOf(c, k) ==
  [name |-> <<69, 48 + k>>,
   value |-> [i \in 1..c.n["value"] |->
                [name |-> <<65 + i>>, number |-> i - 1, has_options |-> i = 1,
                 options |-> Opts]],
   reserved_range |-> [i \in 1..c.n["reserved_range"] |->
                         [start |-> 10 * i, end |-> 10 * i + 5]],
   reserved_name |-> [i \in 1..c.n["reserved_name"] |-> <<82, 48 + i>>],
   has_options |-> c.opt, options |-> Opts]

RECURSIVE MsgOf(_, _, _)
MsgOf(c, depth, k) ==
  [name |-> <<77, 48 + k>>,
   field |-> [i \in 1..c.n["field"] |-> MemberField(i, c.n["oneof_decl"], FALSE)],
   oneof_decl |-> [i \in 1..c.n["oneof_decl"] |->
                     [name |-> <<111, 48 + i>>, index |-> i - 1,
                      has_options |-> i = 1, options |-> Opts]],
   nested_type |-> IF depth = 0 THEN <<>>
                   ELSE [i \in 1..c.n["nested_type"] |-> MsgOf(Small(c), depth - 1, i)],
   enum_type |-> [i \in 1..c.n["enum_type"] |-> EnumOf(Small(c), i)],
   extension |-> [i \in 1..c.n["extension"] |-> MemberField(i, 0, TRUE)],
   extension_range |-> [i \in 1..c.n["extension_range"] |->
                          [start |-> 100 * i, end |-> 100 * i + 50,
                           has_options |-> i = 1, options |-> Opts]],
   reserved_range |-> [i \in 1..c.n["reserved_range"] |->
                         [start |-> 10 * i, end |-> 10 * i + 5]],
   reserved_name |-> [i \in 1..c.n["reserved_name"] |-> <<114, 48 + i>>],
   has_options |-> c.opt, options |-> Opts]

ServiceOf(c, k) ==
  [name |-> <<83, 48 + k>>,
   method |-> [i \in 1..c.n["method"] |->
                 [name |-> <<109, 48 + i>>, input_type |-> [full_name |-> <<112, 46, 73>>],
                  output_type |-> [full_name |-> <<112, 46, 79>>],
                  client_streaming |-> i % 2 = 1, server_streaming |-> i % 2 = 0,
                  has_options |-> i = 1, options |-> Opts]],
   has_options |-> c.opt, options |-> Opts]

FileOf(c, syntax, pkg) ==
  [name |-> <<102, 46, 112>>,
   has_package |-> pkg # "null", package |-> IF pkg = "set" THEN <<97, 46, 98>> ELSE <<>>,
   syntax |-> syntax, edition |-> 1000,
   dependency |-> [i \in 1..c.n["dependency"] |-> [name |-> <<100, 48 + i>>]],
   public_dependency |-> [i \in 1..c.n["public_dependency"] |-> i - 1],
   weak_dependency |-> [i \in 1..c.n["weak_dependency"] |-> i - 1],
   message_type |-> [i \in 1..c.n["message_type"] |-> MsgOf(Small(c), MaxDepth, i)],
   enum_type |-> [i \in 1..c.n["enum_type"] |-> EnumOf(Small(c), i)],
   service |-> [i \in 1..c.n["service"] |-> ServiceOf(Small(c), i)],
   extension |-> [i \in 1..c.n["extension"] |-> MemberField(i, 0, TRUE)],
   has_options |-> c.opt, options |-> Opts]

MessageSamples == {MsgOf(c, MaxDepth, 1) : c \in Profiles}

EnumSamples == {EnumOf(c, 1) : c \in Profiles}

ServiceSamples == {ServiceOf(c, 1) : c \in Profiles}

FileSamples ==
  {FileOf(c, "Proto2", "set") : c \in Profiles}
  \cup {FileOf([n |-> [cat \in Cats |-> 0], opt |-> FALSE], sy, pkg) :
          sy \in {"Proto2", "Proto3", "Editions"}, pkg \in {"null", "empty", "set"}}

(***************************************************************************)
(* The arena and the statements' execution.                                *)
(***************************************************************************)
AllocOps == {"new", "setstr", "resize", "storedup", "serialize", "parse"}

\* The number of allocator calls a conversion makes when none fails.
AllocCount(code) == Cardinality({i \in 1..Len(code) : code[i].op \in AllocOps})

Cur == Head(rest)

Running(o) == status = "running" /\ rest # <<>> /\ Cur.op = o

\* Whether the allocator call about to be made succeeds.
NextAllocOK == failAt = 0 \/ allocs + 1 < failAt \/ (~sticky /\ allocs + 1 > failAt)

\* One call of the arena's allocator (directly, or inside new/resize/serialize/parse).
upb_Arena_Malloc == allocs' = allocs + 1 /\ failed' = (failed \/ ~NextAllocOK)

Fixed == UNCHANGED <<kind, src, failAt, sticky>>

Advance == rest' = Tail(rest) /\ status' = status

\* longjmp to the entry point's setjmp, which returns NULL.
UPB_LONGJMP ==
  /\ status' = "null"
  /\ rest' = <<>>
  /\ UNCHANGED <<out, nullarr, linked, returned, overrun>>

CHK_OOM(val, continue) == IF val THEN continue ELSE UPB_LONGJMP

\* A store through a null array pointer is undefined: the build either
\* traps, or the store lands outside the output tree and execution goes on.
NullStore ==
  \/ /\ status' = "crash"
     /\ rest' = <<>>
     /\ UNCHANGED <<out, nullarr, linked, returned, overrun>>
  \/ /\ Advance
     /\ UNCHANGED <<out, nullarr, linked, returned, overrun>>

\* The string view an encoder returns: size bytes of its buffer (a byte the
\* encoder did not write reads as -1).
View(sv) ==
  [data |-> [i \in 1..sv.size |-> IF i <= Len(sv.written) THEN sv.written[i] ELSE -1],
   owner |-> "arena"]

EmptySlot == [k |-> "null", ref |-> <<>>, data |-> <<>>, owner |-> "none"]

NodeSlot(q) == [k |-> "node", ref |-> q, data |-> <<>>, owner |-> "arena"]

StrSlot(v) == [k |-> "str", ref |-> <<>>, data |-> v.data, owner |-> v.owner]

SetAttr(p, a, v) == out' = [out EXCEPT ![p] = (a :> v) @@ @]

SetSlot(p, cat, i, v) == out' = [out EXCEPT ![p] = (cat :> [@[cat] EXCEPT ![i] = v]) @@ @]

proto_new ==
  /\ Running("new")
  /\ upb_Arena_Malloc
  /\ Fixed
  /\ CHK_OOM(NextAllocOK,
             /\ out' = (Cur.node :> ("$type" :> Cur.type)) @@ out
             /\ Advance
             /\ UNCHANGED <<nullarr, linked, returned, overrun>>)

set_string ==
  /\ Running("setstr")
  /\ upb_Arena_Malloc
  /\ Fixed
  /\ CHK_OOM(NextAllocOK,
             IF ~Cur.sv.assert_ok
               THEN /\ status' = "crash"
                    /\ rest' = <<>>
                    /\ UNCHANGED <<out, nullarr, linked, returned, overrun>>
               ELSE /\ SetAttr(Cur.node, Cur.attr, View(Cur.sv))
                    /\ overrun' = (overrun \/ Len(Cur.sv.written) > Cur.sv.alloc)
                    /\ Advance
                    /\ UNCHANGED <<nullarr, linked, returned>>)

set_scalar ==
  /\ Running("set")
  /\ SetAttr(Cur.node, Cur.attr, Cur.val)
  /\ Advance
  /\ Fixed
  /\ UNCHANGED <<nullarr, linked, returned, overrun, allocs, failed>>

resize ==
  /\ Running("resize")
  /\ upb_Arena_Malloc
  /\ Fixed
  /\ IF NextAllocOK
       THEN /\ SetAttr(Cur.node, Cur.cat, [i \in 1..Cur.n |-> EmptySlot])
            /\ Advance
            /\ UNCHANGED <<nullarr, linked, returned, overrun>>
       ELSE IF Cur.chk
         THEN UPB_LONGJMP
         ELSE /\ nullarr' = nullarr \cup {<<Cur.node, Cur.cat>>}
              /\ Advance
              /\ UNCHANGED <<out, linked, returned, overrun>>

store_node ==
  /\ Running("storenode")
  /\ Fixed
  /\ UNCHANGED <<allocs, failed>>
  /\ IF <<Cur.node, Cur.cat>> \in nullarr
       THEN NullStore
       ELSE /\ SetSlot(Cur.node, Cur.cat, Cur.i, NodeSlot(Cur.ref))
            /\ linked' = linked \cup {Cur.ref}
            /\ Advance
            /\ UNCHANGED <<nullarr, returned, overrun>>

store_dup ==
  /\ Running("storedup")
  /\ upb_Arena_Malloc
  /\ Fixed
  /\ CHK_OOM(NextAllocOK,
             IF <<Cur.node, Cur.cat>> \in nullarr
               THEN NullStore
               ELSE /\ SetSlot(Cur.node, Cur.cat, Cur.i, StrSlot(View(Cur.sv)))
                    /\ Advance
                    /\ UNCHANGED <<nullarr, linked, returned, overrun>>)

store_view ==
  /\ Running("storeview")
  /\ Fixed
  /\ UNCHANGED <<allocs, failed>>
  /\ IF <<Cur.node, Cur.cat>> \in nullarr
       THEN NullStore
       ELSE /\ SetSlot(Cur.node, Cur.cat, Cur.i, StrSlot([data |-> Cur.str, owner |-> "source"]))
            /\ Advance
            /\ UNCHANGED <<nullarr, linked, returned, overrun>>

copy_indexes ==
  /\ Running("memcpy")
  /\ Fixed
  /\ UNCHANGED <<allocs, failed>>
  /\ IF Len(Cur.nums) = 0
       THEN /\ Advance
            /\ UNCHANGED <<out, nullarr, linked, returned, overrun>>
       ELSE IF <<Cur.node, Cur.cat>> \in nullarr
         THEN NullStore
         ELSE /\ SetAttr(Cur.node, Cur.cat, Cur.nums)
              /\ Advance
              /\ UNCHANGED <<nullarr, linked, returned, overrun>>

options_serialize ==
  /\ Running("serialize")
  /\ upb_Arena_Malloc
  /\ Fixed
  /\ CHK_OOM(NextAllocOK,
             /\ Advance
             /\ UNCHANGED <<out, nullarr, linked, returned, overrun>>)

options_parse ==
  /\ Running("parse")
  /\ upb_Arena_Malloc
  /\ Fixed
  /\ CHK_OOM(NextAllocOK,
             /\ SetAttr(Cur.node, "options", Parse(Cur.pb))
             /\ Advance
             /\ UNCHANGED <<nullarr, linked, returned, overrun>>)

\* `return proto`; the return of the outermost converter is the entry point's.
return_proto ==
  /\ Running("return")
  /\ returned' = returned \cup {Cur.node}
  /\ rest' = Tail(rest)
  /\ status' = IF Cur.node = <<>> THEN "node" ELSE status
  /\ Fixed
  /\ UNCHANGED <<out, nullarr, linked, overrun, allocs, failed>>

(***************************************************************************)
(* Public entry points: a fresh context over the caller's arena, setjmp,   *)
(* then the converter.  The arena is the caller's: which of its allocator  *)
(* calls fail is the caller's choice.  Whether plain char is signed (sgn)  *)
(* is a choice of the build that runs the call.                            *)
(***************************************************************************)
\* if (UPB_SETJMP(ctx->err)) return NULL; return xdef_toproto(ctx, s);
Convert(s, code) ==
  /\ status' = "running"
  /\ src' = s
  /\ rest' = code
  /\ \E fa \in 0..Min(MaxFailAt, AllocCount(code)), st \in BOOLEAN :
       /\ fa = 0 => ~st
       /\ failAt' = fa
       /\ sticky' = st
  /\ UNCHANGED <<out, nullarr, linked, returned, allocs, failed, overrun>>

upb_MessageDef_ToProto ==
  /\ status = "idle"
  /\ kind' = "Message"
  /\ \E m \in MessageSamples, sgn \in BOOLEAN : Convert(m, msgdef_toproto(m, <<>>, sgn))

upb_EnumDef_ToProto ==
  /\ status = "idle"
  /\ kind' = "Enum"
  /\ \E e \in EnumSamples : Convert(e, enumdef_toproto(e, <<>>))

upb_EnumValueDef_ToProto ==
  /\ status = "idle"
  /\ kind' = "EnumValue"
  /\ \E e \in EnumValueSamples : Convert(e, enumvaldef_toproto(e, <<>>))

upb_FieldDef_ToProto ==
  /\ status = "idle"
  /\ kind' = "Field"
  /\ \E f \in FieldSamples, sgn \in BOOLEAN : Convert(f, fielddef_toproto(f, <<>>, sgn))

upb_OneofDef_ToProto ==
  /\ status = "idle"
  /\ kind' = "Oneof"
  /\ \E o \in OneofSamples : Convert(o, oneofdef_toproto(o, <<>>))

upb_FileDef_ToProto ==
  /\ status = "idle"
  /\ kind' = "File"
  /\ \E f \in FileSamples, sgn \in BOOLEAN : Convert(f, filedef_toproto(f, <<>>, sgn))

upb_MethodDef_ToProto ==
  /\ status = "idle"
  /\ kind' = "Method"
  /\ \E m \in MethodSamples : Convert(m, methoddef_toproto(m, <<>>))

upb_ServiceDef_ToProto ==
  /\ status = "idle"
  /\ kind' = "Service"
  /\ \E s \in ServiceSamples : Convert(s, servicedef_toproto(s, <<>>))

Init ==
  /\ status = "idle"
  /\ kind = "none"
  /\ src = <<>>
  /\ rest = <<>>
  /\ out = [p \in {} |-> EmptyNode]
  /\ nullarr = {}
  /\ linked = {}
  /\ returned = {}
  /\ allocs = 0
  /\ failAt = 0
  /\ sticky = FALSE
  /\ failed = FALSE
  /\ overrun = FALSE

Next ==
  \/ upb_MessageDef_ToProto
  \/ upb_EnumDef_ToProto
  \/ upb_EnumValueDef_ToProto
  \/ upb_FieldDef_ToProto
  \/ upb_OneofDef_ToProto
  \/ upb_FileDef_ToProto
  \/ upb_MethodDef_ToProto
  \/ upb_ServiceDef_ToProto
  \/ proto_new
  \/ set_string
  \/ set_scalar
  \/ resize
  \/ store_node
  \/ store_dup
  \/ store_view
  \/ copy_indexes
  \/ options_serialize
  \/ options_parse
  \/ return_proto

Spec == Init /\ [][Next]_vars

(***************************************************************************)
(* Properties.                                                             *)
(***************************************************************************)
Done == status \in {"node", "null", "crash"}

\* The source entity the node at path p is converted from.
RECURSIVE SrcAt(_, _)
SrcAt(s, p) == IF p = <<>> THEN s ELSE SrcAt(s[Head(p).c][Head(p).i], Tail(p))

Has(p, a) == a \in DOMAIN out[p]

NodesOf(t) == {p \in DOMAIN out : out[p]["$type"] = t}

\* C1: whichever allocator call of a conversion fails, the entry point
\* returns NULL, and when none fails it returns the fully built node; it
\* never ends any other way.
C1_FailureGivesNullElseNode ==
  Done => /\ failed => status = "null"
          /\ ~failed => status = "node" /\ <<>> \in returned /\ <<>> \in DOMAIN out

\* C2: once an allocator call has failed, the conversion makes no further
\* allocator call and writes nothing more to the output.
C2_NothingAfterFailure == [][failed => allocs' = allocs /\ out' = out]_vars

\* The repeated child categories of each descriptor type.
NodeCats(t) ==
  CASE t = "DescriptorProto" ->
         {"field", "oneof_decl", "nested_type", "enum_type", "extension",
          "extension_range", "reserved_range"}
    [] t = "EnumDescriptorProto" -> {"value", "reserved_range"}
    [] t = "ServiceDescriptorProto" -> {"method"}
    [] t = "FileDescriptorProto" -> {"message_type", "enum_type", "service", "extension"}
    [] OTHER -> {}

StrCats(t) ==
  CASE t = "DescriptorProto" -> {"reserved_name"}
    [] t = "EnumDescriptorProto" -> {"reserved_name"}
    [] t = "FileDescriptorProto" -> {"dependency"}
    [] OTHER -> {}

\* The length of a repeated field of the output; an absent one is empty.
ArrLen(p, cat) == IF Has(p, cat) THEN Len(out[p][cat]) ELSE 0

\* Whether output node q is the conversion of source child c: the two agree
\* on what identifies a child among its siblings (name, or range bounds).
ConversionOf(q, c) ==
  /\ q \in DOMAIN out
  /\ IF "name" \in DOMAIN c
       THEN Has(q, "name") /\ out[q]["name"].data = c.name
       ELSE /\ Has(q, "start") /\ out[q]["start"] = c.start
            /\ Has(q, "end") /\ out[q]["end"] = c.end

SourceText(cat, c) == IF cat = "dependency" THEN c.name ELSE c

\* C3: in a successful conversion every repeated child category of every
\* entity has exactly as many output slots as the source has children, and
\* slot i holds the conversion of source child i.
C3_SlotsMirrorChildren ==
  status = "node" =>
    \A p \in returned :
      LET s == SrcAt(src, p)
          t == out[p]["$type"]
      IN  /\ \A cat \in NodeCats(t) :
               /\ ArrLen(p, cat) = Len(s[cat])
               /\ \A i \in 1..Len(s[cat]) :
                    /\ out[p][cat][i].k = "node"
                    /\ out[p][cat][i].ref = Child(p, cat, i)
                    /\ ConversionOf(out[p][cat][i].ref, s[cat][i])
          /\ \A cat \in StrCats(t) :
               /\ ArrLen(p, cat) = Len(s[cat])
               /\ \A i \in 1..Len(s[cat]) :
                    /\ out[p][cat][i].k = "str"
                    /\ out[p][cat][i].data = SourceText(cat, s[cat][i])

\* The same, for the conversions in which no allocator call failed.
C3_SlotsMirrorChildrenNoFailure == ~failed => C3_SlotsMirrorChildren

BytesDefaultConverted ==
  /\ status = "node"
  /\ kind = "Field"
  /\ src.ctype = "Bytes"
  /\ src.has_default

\* C4: every byte of the escaped text of a bytes default lies in 0x20..0x7e.
C4_EscapedTextPrintable ==
  BytesDefaultConverted =>
    \A i \in 1..Len(out[<<>>]["default_value"].data) :
      /\ out[<<>>]["default_value"].data[i] >= 32
      /\ out[<<>>]["default_value"].data[i] <= 126

IsOctal(b) == b >= 48 /\ b <= 55

\* The standard unescape: \n \r \t \\ \' \" and \DDD (octal), else verbatim.
RECURSIVE Unescape(_)
Unescape(t) ==
  IF t = <<>> THEN <<>>
  ELSE IF Head(t) = 92 /\ Len(t) >= 2 /\ t[2] \in {110, 114, 116, 92, 39, 34}
    THEN <<CASE t[2] = 110 -> 10 [] t[2] = 114 -> 13 [] t[2] = 116 -> 9
             [] OTHER -> t[2]>>
         \o Unescape(SubSeq(t, 3, Len(t)))
  ELSE IF Head(t) = 92 /\ Len(t) >= 4 /\ IsOctal(t[2]) /\ IsOctal(t[3]) /\ IsOctal(t[4])
    THEN <<(t[2] - 48) * 64 + (t[3] - 48) * 8 + (t[4] - 48)>>
         \o Unescape(SubSeq(t, 5, Len(t)))
  ELSE <<Head(t)>> \o Unescape(Tail(t))

\* C5: unescaping the escaped text of a bytes default gives back the bytes.
C5_EscapeRoundTrip ==
  BytesDefaultConverted => Unescape(out[<<>>]["default_value"].data) = src.default.str_val

C5_Witness ==
  /\ BytesDefaultConverted
  /\ src.default.str_val = <<255, 92>>
  /\ out[<<>>]["default_value"].data = <<92, 51, 55, 55, 92, 92>>

\* The escaped length of one byte: 2 for the six special bytes, 1 for the
\* other bytes of 0x20..0x7f, 4 for the rest.
ClassLen(b) ==
  IF b \in {9, 10, 13, 34, 39, 92} THEN 2 ELSE IF b \in 32..127 THEN 1 ELSE 4

RECURSIVE SumClassLen(_)
SumClassLen(val) == IF val = <<>> THEN 0 ELSE ClassLen(Head(val)) + SumClassLen(Tail(val))

\* C6: the write pass of default_bytes stores exactly the number of bytes
\* the length pass counted (2, 1 or 4 per byte), never beyond the buffer;
\* the bytes 0x00 0x41 give \000A.
C6_PassesAgree ==
  /\ kind = "Field" /\ status \in {"running", "node"} => ~overrun
  /\ BytesDefaultConverted =>
       /\ Len(out[<<>>]["default_value"].data) = SumClassLen(src.default.str_val)
       /\ \A i \in 1..Len(out[<<>>]["default_value"].data) :
            out[<<>>]["default_value"].data[i] # -1
       /\ src.default.str_val = <<0, 65>> =>
            out[<<>>]["default_value"].data = <<92, 48, 48, 48, 65>>

C6_Witness ==
  /\ BytesDefaultConverted
  /\ src.default.str_val = <<0, 65>>
  /\ Len(out[<<>>]["default_value"].data) = 5

StrAttrs ==
  {"name", "json_name", "type_name", "extendee", "default_value", "input_type",
   "output_type", "package", "syntax"}

\* C7: after a successful conversion every string of the output tree is
\* storage of the arena, none is storage of the source model.
C7_StringsArenaOwned ==
  status = "node" =>
    \A p \in DOMAIN out :
      /\ \A a \in StrAttrs \cap DOMAIN out[p] : out[p][a].owner = "arena"
      /\ \A cat \in StrCats(out[p]["$type"]) \cap DOMAIN out[p] :
           \A i \in 1..Len(out[p][cat]) :
             out[p][cat][i].k = "str" => out[p][cat][i].owner = "arena"

\* C8: a node is stored into its parent's slot only after its converter has
\* returned, and a node that is linked is never written again.
C8_BuiltBeforeLinked ==
  [][/\ linked' \subseteq returned'
     /\ \A p \in linked : p \in DOMAIN out' /\ out'[p] = out[p]]_vars

C8_Witness ==
  /\ status = "node"
  /\ kind = "Message"
  /\ Child(<<>>, "nested_type", 1) \in linked
  /\ Child(Child(<<>>, "nested_type", 1), "field", 1) \in linked
  /\ Has(<<>>, "options")

\* The source fields and the paths of their output nodes.
IsMember(p) == p # <<>> /\ p[Len(p)].c = "field"

Parent(p) == SubSeq(p, 1, Len(p) - 1)

\* C9: a converted field has a default value iff the source field has an
\* explicit default, and an oneof index iff the source field is in a oneof,
\* the index being that of the oneof among its message's oneofs.
C9_DefaultAndOneofIndex ==
  \A p \in NodesOf("FieldDescriptorProto") \cap returned :
    LET f == SrcAt(src, p)
    IN  /\ Has(p, "default_value") <=> f.has_default
        /\ Has(p, "oneof_index") <=> f.containing_oneof.present
        /\ f.containing_oneof.present =>
             /\ out[p]["oneof_index"] = f.containing_oneof.index
             /\ IsMember(p) =>
                  SrcAt(src, Parent(p)).oneof_decl[out[p]["oneof_index"] + 1].name
                    = f.containing_oneof.name

C9_Witness ==
  /\ status = "node"
  /\ kind = "Message"
  /\ \E p \in NodesOf("FieldDescriptorProto") \cap returned :
       /\ IsMember(p)
       /\ Has(p, "default_value")
       /\ Has(p, "oneof_index") /\ out[p]["oneof_index"] = 0
  /\ \E p \in NodesOf("FieldDescriptorProto") \cap returned :
       /\ IsMember(p)
       /\ ~Has(p, "default_value")
       /\ Has(p, "oneof_index") /\ out[p]["oneof_index"] = 1
  /\ \E p \in NodesOf("FieldDescriptorProto") \cap returned :
       ~Has(p, "default_value") /\ ~Has(p, "oneof_index")

\* C10: a converted method has the client-streaming flag iff the source
\* method is client-streaming, likewise the server-streaming flag, and a
\* flag that is set is true.
C10_StreamingFlags ==
  \A p \in NodesOf("MethodDescriptorProto") \cap returned :
    LET m == SrcAt(src, p)
    IN  /\ Has(p, "client_streaming") <=> m.client_streaming
        /\ Has(p, "server_streaming") <=> m.server_streaming
        /\ Has(p, "client_streaming") => out[p]["client_streaming"] = TRUE
        /\ Has(p, "server_streaming") => out[p]["server_streaming"] = TRUE

C10_Witness ==
  /\ status = "node"
  /\ kind = "Method"
  /\ Has(<<>>, "client_streaming")
  /\ ~Has(<<>>, "server_streaming")

IntKinds == {"Int32", "Int64", "UInt32", "UInt64"}

\* The integer member of the default of field f that its kind selects.
IntDefault(f) ==
  CASE f.ctype = "Int32" -> f.default.int32_val
    [] f.ctype = "Int64" -> f.default.int64_val
    [] f.ctype = "UInt32" -> f.default.uint32_val
    [] f.ctype = "UInt64" -> f.default.uint64_val

\* The decimal digits of a wide integer, written out without the conversion:
\* a limb after the first always contributes nine of them.
DigitCount(v) ==
  LET lead == v.limbs[1]
      k == CHOOSE j \in 1..9 : 10 ^ (j - 1) <= lead /\ (j = 9 \/ lead < 10 ^ j)
  IN  (IF lead = 0 THEN 1 ELSE k) + 9 * (Len(v.limbs) - 1) + (IF v.neg THEN 1 ELSE 0)

\* C15: the decimal text of a default of kind int32, int64, uint32 or uint64,
\* the ends of the ranges included, is shorter than the 32-byte buffer of
\* printf_dup: the assertion n < max holds where the text is about to be
\* stored, the buffer holds the whole text and its terminator, and the stored
\* text is the whole decimal form.
C15_IntDefaultFitsBuffer ==
  /\ (/\ Running("setstr")
      /\ Cur.attr = "default_value"
      /\ SrcAt(src, Cur.node).ctype \in IntKinds)
       => /\ Cur.sv.assert_ok
          /\ Cur.sv.size < printf_max
          /\ Cur.sv.size = DigitCount(IntDefault(SrcAt(src, Cur.node)))
          /\ Len(Cur.sv.written) = Cur.sv.size + 1
          /\ Len(Cur.sv.written) <= Cur.sv.alloc
  /\ \A p \in NodesOf("FieldDescriptorProto") :
       (Has(p, "default_value") /\ SrcAt(src, p).ctype \in IntKinds)
         => /\ out[p]["default_value"].data = Dec(IntDefault(SrcAt(src, p)))
            /\ Len(out[p]["default_value"].data) < printf_max

C15_Witness ==
  /\ status = "node"
  /\ \E p \in NodesOf("FieldDescriptorProto") \cap returned :
       /\ SrcAt(src, p).ctype = "UInt64"
       /\ SrcAt(src, p).default.uint64_val = UINT64_MAX
       /\ Has(p, "default_value")
       /\ Len(out[p]["default_value"].data) = 20
  /\ kind = "Field"

C15_WitnessMinSigned ==
  /\ status = "node"
  /\ \E p \in NodesOf("FieldDescriptorProto") \cap returned :
       /\ SrcAt(src, p).ctype = "Int64"
       /\ SrcAt(src, p).default.int64_val = INT64_MIN
       /\ Has(p, "default_value")
       /\ out[p]["default_value"].data[1] = 45
       /\ Len(out[p]["default_value"].data) = 20

FloatKinds == {"Float", "Double"}

\* The member of the default of a float or double field that its kind selects.
FloatDefault(f) == IF f.ctype = "Float" THEN f.default.float_val ELSE f.default.double_val

IsSpecial(f) == f.ctype \in FloatKinds /\ FloatDefault(f).cls # "fin"

SpecialText(cls) ==
  CASE cls = "inf" -> S_inf [] cls = "ninf" -> S_ninf [] cls = "nan" -> S_nan

\* The text of the default of a field that is neither float nor double, read
\* off the kind of the field alone; bytes, whose text is judged by
\* unescaping it, stand as they are.
TextByKind(f, text) ==
  CASE f.ctype = "Bool" -> IF f.default.bool_val THEN S_true ELSE S_false
    [] f.ctype = "Enum" ->
         LET vs == {i \in 1..Len(f.enum_sub.value) :
                      W(f.enum_sub.value[i].number) = f.default.int32_val}
         IN  f.enum_sub.value[CHOOSE i \in vs : \A j \in vs : i <= j].name
    [] f.ctype \in IntKinds -> Dec(IntDefault(f))
    [] f.ctype = "String" -> f.default.str_val
    [] f.ctype = "Bytes" -> text

\* C13: the default text of a float or double field whose default is an
\* infinity or a NaN is exactly "inf", "-inf" or "nan", and is made by the
\* plain string copy, never by the numeric formatter; the default text of a
\* field of any other kind is the one its kind alone selects (true/false, the
\* name of the enum value, the decimal number, the string itself, the escaped
\* bytes), whatever its bits read as through the float or double member.
C13_SpecialFloatDefaults ==
  /\ (Running("setstr") /\ Cur.attr = "default_value") =>
       LET f == SrcAt(src, Cur.node)
       IN  /\ IsSpecial(f) => Cur.sv.fn # "printf_dup"
           /\ (f.ctype \in FloatKinds /\ ~IsSpecial(f)) => Cur.sv.fn = "printf_dup"
           /\ f.ctype \in IntKinds => Cur.sv.fn = "printf_dup"
           /\ f.ctype = "Bytes" => Cur.sv.fn = "default_bytes"
           /\ f.ctype \in {"Bool", "Enum", "String"} => Cur.sv.fn = "strviewdup2"
  /\ \A p \in NodesOf("FieldDescriptorProto") :
       Has(p, "default_value") =>
         LET f == SrcAt(src, p)
             text == out[p]["default_value"].data
         IN  /\ IsSpecial(f) => text = SpecialText(FloatDefault(f).cls)
             /\ (f.ctype \in FloatKinds /\ ~IsSpecial(f)) =>
                  text \notin {S_inf, S_ninf, S_nan}
             /\ f.ctype \notin FloatKinds =>
                  /\ text = TextByKind(f, text)
                  /\ f.ctype = "Bytes" => Unescape(text) = f.default.str_val

C13_Witness ==
  /\ status = "node"
  /\ kind = "Field"
  /\ src.ctype = "Double"
  /\ src.has_default
  /\ src.default.double_val.cls = "nan"
  /\ out[<<>>]["default_value"].data = S_nan
  /\ <<>> \in returned

\* A field of an integer kind whose bits are those of an infinity, converted.
C13_WitnessIntegerBits ==
  /\ status = "node"
  /\ kind = "Field"
  /\ src.ctype = "Int64"
  /\ src.has_default
  /\ src.default.double_val.cls = "inf"
  /\ Len(out[<<>>]["default_value"].data) = 19

\* C11: a converted file has a package iff the source package is present and
\* not empty, and then it is that package; it has an edition iff the file's
\* syntax is editions, and a syntax, the text "proto3", iff the file's syntax
\* is proto3; a proto2 file has neither, and no file has both.
C11_PackageEditionSyntax ==
  \A p \in NodesOf("FileDescriptorProto") \cap returned :
    LET f == SrcAt(src, p)
    IN  /\ Has(p, "package") <=> (f.has_package /\ f.package # <<>>)
        /\ Has(p, "package") => out[p]["package"].data = f.package
        /\ Has(p, "edition") <=> f.syntax = "Editions"
        /\ Has(p, "edition") => out[p]["edition"] = f.edition
        /\ Has(p, "syntax") <=> f.syntax = "Proto3"
        /\ Has(p, "syntax") => out[p]["syntax"].data = S_proto3
        /\ f.syntax = "Proto2" => ~Has(p, "syntax") /\ ~Has(p, "edition")
        /\ ~(Has(p, "syntax") /\ Has(p, "edition"))

C11_Witness ==
  /\ status = "node"
  /\ kind = "File"
  /\ <<>> \in returned
  /\ src.syntax = "Proto3"
  /\ src.has_package /\ src.package = <<>>
  /\ ~Has(<<>>, "package")
  /\ Has(<<>>, "syntax")
  /\ ~Has(<<>>, "edition")

\* An editions file with a package, converted.
C11_WitnessEditions ==
  /\ status = "node"
  /\ kind = "File"
  /\ src.syntax = "Editions"
  /\ Has(<<>>, "package")
  /\ Has(<<>>, "edition")
  /\ ~Has(<<>>, "syntax")

\* The qualified form of a full name: a dot, then the name.
Qualified(name) == <<46>> \o name

\* C14: the type name of a converted field is the qualified full name of the
\* referenced message when the field is a sub-message, else the qualified
\* full name of the referenced enum when its kind is enum, else it is not
\* set; the extendee is set iff the field is an extension, to the qualified
\* full name of the extended message; a qualified name starts with a dot and
\* is one longer than the name it qualifies.
C14_QualifiedNames ==
  \A p \in NodesOf("FieldDescriptorProto") \cap returned :
    LET f == SrcAt(src, p)
    IN  /\ Has(p, "type_name") <=> f.ctype \in {"Message", "Enum"}
        /\ f.ctype = "Message" =>
             /\ out[p]["type_name"].data = Qualified(f.message_sub_def.full_name)
             /\ Len(out[p]["type_name"].data) = Len(f.message_sub_def.full_name) + 1
        /\ f.ctype = "Enum" =>
             /\ out[p]["type_name"].data = Qualified(f.enum_sub.full_name)
             /\ Len(out[p]["type_name"].data) = Len(f.enum_sub.full_name) + 1
        /\ Has(p, "type_name") => out[p]["type_name"].data[1] = 46
        /\ Has(p, "extendee") <=> f.is_extension
        /\ f.is_extension =>
             /\ out[p]["extendee"].data = Qualified(f.containing_type.full_name)
             /\ out[p]["extendee"].data[1] = 46
             /\ Len(out[p]["extendee"].data) = Len(f.containing_type.full_name) + 1

C14_Witness ==
  /\ status = "node"
  /\ kind = "Field"
  /\ <<>> \in returned
  /\ src.ctype = "Message"
  /\ src.is_extension
  /\ out[<<>>]["type_name"].data = Qualified(SubMsg.full_name)
  /\ out[<<>>]["extendee"].data = Qualified(src.containing_type.full_name)

\* A message converted with an enum field, which has a type name, and a
\* field of another kind, which has none.
C14_WitnessMembers ==
  /\ status = "node"
  /\ kind = "Message"
  /\ \E p \in NodesOf("FieldDescriptorProto") \cap returned :
       /\ SrcAt(src, p).ctype = "Enum"
       /\ Has(p, "type_name") /\ ~Has(p, "extendee")
  /\ \E p \in NodesOf("FieldDescriptorProto") \cap returned :
       /\ SrcAt(src, p).ctype = "Int32"
       /\ ~Has(p, "type_name")

\* The nodes of the kinds that can carry options.
OptionCarriers ==
  UNION {NodesOf(t) : t \in {"FieldDescriptorProto", "OneofDescriptorProto",
                             "EnumValueDescriptorProto", "EnumDescriptorProto",
                             "DescriptorProto_ExtensionRange", "DescriptorProto",
                             "MethodDescriptorProto", "ServiceDescriptorProto",
                             "FileDescriptorProto"}}

OptionsCopied ==
  \A p \in OptionCarriers \cap returned :
    LET s == SrcAt(src, p)
    IN  /\ Has(p, "options") <=> s.has_options
        /\ s.has_options =>
             /\ out[p]["options"] = Parse(Serialize(s.options))
             /\ out[p]["options"] = s.options

\* C12: a converted node of a kind that can carry options has options iff
\* its source entity has them, and they are the source options serialized and
\* parsed back, every field of them, the unknown ones included, unchanged;
\* both steps draw on the arena, and when the allocator fails in either the
\* entry point returns NULL.
C12_OptionsRoundTrip ==
  /\ []OptionsCopied
  /\ [][((Running("serialize") \/ Running("parse")) /\ ~NextAllocOK)
          => (status' = "null" /\ out' = out)]_vars
  /\ [][(Running("serialize") \/ Running("parse")) => allocs' = allocs + 1]_vars

C12_Witness ==
  /\ status = "node"
  /\ kind = "Message"
  /\ Has(<<>>, "options")
  /\ \E i \in 1..Len(out[<<>>]["options"]) :
       out[<<>>]["options"][i] = [num |-> 200, val |-> <<7, 8>>]
  /\ \E p \in NodesOf("FieldDescriptorProto") \cap returned : Has(p, "options")
  /\ \E p \in NodesOf("FieldDescriptorProto") \cap returned : ~Has(p, "options")
  /\ \E p \in NodesOf("OneofDescriptorProto") \cap returned : Has(p, "options")
  /\ \E p \in NodesOf("DescriptorProto_ExtensionRange") \cap returned : Has(p, "options")

====
